---------------------------- MODULE Spec2Model ----------------------------
(***************************************************************************)
(* Job execution and bookkeeping of shell-agent.                           *)
(*                                                                         *)
(* src/http_cmd_handler.go holds the request handlers (RunCmdHandler,      *)
(* QueryCmdHandler, ListCmdHandler, CancelCmdHandler) and cmdWorker with   *)
(* its watcher goroutine.  The JobBookkeeper (NewJobBookkeeper, Add, Get,  *)
(* GetAll, Close and the expiry loop) is called from that file but is not  *)
(* part of src/; it is modelled from sections 4.1 and 8 of spec.md.        *)
(*                                                                         *)
(* Job k carries the id <<k>> (the uuid string).  Request ids are short    *)
(* sequences of characters in which 0 stands for a blank, so that          *)
(* strings.TrimSpace has something to trim.                                *)
(*                                                                         *)
(* Granularity.  A handler is one step (it never blocks).  cmdWorker is    *)
(* cut at every point where another goroutine can observe or change what   *)
(* it reads next: cmd.Start, cmd.Wait, close(doneC), the Failed/Finished   *)
(* write, the check of `canceled`, and the deferred function.  `canceled`  *)
(* is written by the watcher and read by the worker without any            *)
(* synchronisation; the model takes the write and the read in both orders. *)
(***************************************************************************)
EXTENDS Integers, Sequences, FiniteSets, TLC

\* ------------------------------------------------------------------ bounds
MaxJobs == 1
MaxTime == 4
MaxOut == 1
ExpireDays == 1
SweepInterval == 1

JobNums == 1..MaxJobs
ExitCodes == {0, 7}

VARIABLES
    now,        \* the clock read by time.Now()
    goos,       \* runtime.GOOS
    jobs,       \* the bookkeeper's map: the job numbers registered
    nJobs,      \* number of Job objects created so far
    job,        \* the Job objects (reachable through the map or not)
    hpc,        \* position of the RunCmdHandler call that created the job
    ctxDone,    \* ctx.Done() closed: job.cancelFunc has been called
    wpc,        \* position of cmdWorker
    err,        \* cmdWorker's local err after cmd.Wait
    doneC,      \* doneC closed
    canceled,   \* cmdWorker's local `canceled`
    wtpc,       \* position of the watcher goroutine
    proc,       \* the child process
    kills,      \* number of cmd.Process.Kill calls
    cancelAlive,\* history: cancelFunc was called while the child was alive
    addedAt,    \* history: the time at which Add registered the job (0: never)
    outBuf,     \* bytes.Buffer stdout (length)
    errBuf,     \* bytes.Buffer stderr (length)
    lastSweep,  \* time of the last expiry sweep
    halted,     \* "" while serving, "closed" after Uninit, "crashed" after a panic
    resp        \* the response written by the step just taken, if it was a handler

vars == <<now, goos, jobs, nJobs, job, hpc, ctxDone, wpc, err, doneC, canceled,
          wtpc, proc, kills, cancelAlive, addedAt, outBuf, errBuf, lastSweep, halted, resp>>

\* ------------------------------------------------------------- job records
JSRunning == "Running"
JSFinished == "Finished"
JSFailed == "Failed"
JSCanceled == "Canceled"
Terminal == {JSFinished, JSFailed, JSCanceled}

\* time.Unix(0, 0), the "not finished" value of FinishTime
Sentinel == 0

\* the zero value of Job
ZeroJob ==
    [Status |-> "", CreateTime |-> Sentinel, FinishTime |-> Sentinel, Pid |-> 0,
     ExitCode |-> 0, Error |-> <<>>, Stdout |-> 0, Stderr |-> 0]

\* NewJob without line 77: the status keeps its zero value
NewJob_NoStatus(t) ==
    [ZeroJob EXCEPT !.CreateTime = t, !.FinishTime = Sentinel]

\* NewJob without line 78: the creation time keeps its zero value
NewJob_NoCreateTime(t) ==
    [ZeroJob EXCEPT !.Status = JSRunning, !.FinishTime = Sentinel]

\* the Job built by RunCmdHandler before it is registered
NewJob(t) ==
    [ZeroJob EXCEPT !.Status = JSRunning, !.CreateTime = t, !.FinishTime = Sentinel]

\* the uuid string of job k
IdOf(k) == <<k>>

\* ------------------------------------------------------------ error values
NilErr == [kind |-> "nil", code |-> 0]
ExitErr(c) == [kind |-> "exit", code |-> c]
SignalErr == [kind |-> "signal", code |-> 0]
StartErr == [kind |-> "start", code |-> 0]

\* err.Error()
ErrorText(e) ==
    CASE e.kind = "exit" -> <<"exit status", e.code>>
      [] e.kind = "signal" -> <<"signal: killed">>
      [] e.kind = "start" -> <<"exec: start failed">>

\* ------------------------------------------------------- the child process
\* by: what ended the process, "own" (it exited by itself) or "kill"
NoProc == [st |-> "none", code |-> 0, reaped |-> FALSE, by |-> ""]

\* WaitErr that reports every exit, also with code 0, as an ExitError
WaitErr_ZeroIsError(p) ==
    IF p.st = "signaled" THEN SignalErr ELSE ExitErr(p.code)

\* what cmd.Wait returns for an ended process
WaitErr(p) ==
    IF p.st = "signaled" THEN SignalErr
    ELSE IF p.code = 0 THEN NilErr
    ELSE ExitErr(p.code)

\* the process after cmd.Process.Kill: a live process is terminated, by SIGKILL
\* or on windows by TerminateProcess with exit code 1; an ended one is untouched
Killed(p, os) ==
    IF p.st # "alive" THEN p
    ELSE IF os = "windows" THEN [p EXCEPT !.st = "exited", !.code = 1, !.by = "kill"]
    ELSE [p EXCEPT !.st = "signaled", !.by = "kill"]

\* --------------------------------------------------------------- responses
NoResp == [h |-> "", id |-> <<>>, code |-> "", ids |-> {}, snap |-> ZeroJob]
Resp(h, id, code) == [NoResp EXCEPT !.h = h, !.id = id, !.code = code]

\* strings.TrimSpace
RECURSIVE TrimLeft(_)
TrimLeft(s) == IF s # <<>> /\ Head(s) = 0 THEN TrimLeft(Tail(s)) ELSE s
RECURSIVE TrimRight(_)
TrimRight(s) ==
    IF s # <<>> /\ s[Len(s)] = 0 THEN TrimRight(SubSeq(s, 1, Len(s) - 1)) ELSE s
TrimSpace(s) == TrimRight(TrimLeft(s))

\* the ids a request may carry: none, blank, a job's id bare or padded, and an
\* id no job ever gets
RawIds ==
    {<<>>, <<0>>} \cup {<<k>> : k \in 1..(MaxJobs + 1)} \cup {<<0, k, 0>> : k \in JobNums}

\* ---------------------------------------------------------- JobBookkeeper
\* Get(id): the registered job with that id, 0 for nil
Get(id) == IF \E k \in jobs : IdOf(k) = id THEN CHOOSE k \in jobs : IdOf(k) = id ELSE 0

\* GetAll()
GetAll == jobs

\* the jobs an expiry sweep at time t removes
Expired(t) == {k \in jobs : t - job[k].CreateTime > ExpireDays}

\* ----------------------------------------------------------------- Init
Init ==
    /\ now = 1
    /\ goos \in {"linux", "windows"}
    /\ jobs = {}
    /\ nJobs = 0
    /\ job = [k \in JobNums |-> ZeroJob]
    /\ hpc = [k \in JobNums |-> "none"]
    /\ ctxDone = [k \in JobNums |-> FALSE]
    /\ wpc = [k \in JobNums |-> "none"]
    /\ err = [k \in JobNums |-> NilErr]
    /\ doneC = [k \in JobNums |-> FALSE]
    /\ canceled = [k \in JobNums |-> FALSE]
    /\ wtpc = [k \in JobNums |-> "none"]
    /\ proc = [k \in JobNums |-> NoProc]
    /\ kills = [k \in JobNums |-> 0]
    /\ cancelAlive = [k \in JobNums |-> FALSE]
    /\ addedAt = [k \in JobNums |-> 0]
    /\ outBuf = [k \in JobNums |-> 0]
    /\ errBuf = [k \in JobNums |-> 0]
    /\ lastSweep = 1
    /\ halted = ""
    /\ resp = NoResp

Serving == halted = ""

workerVars == <<wpc, err, doneC, canceled, wtpc, proc, kills, outBuf, errBuf>>
histVars == <<cancelAlive, addedAt>>
\* everything a request can change besides its response
stateVars == <<now, goos, jobs, nJobs, job, hpc, ctxDone, workerVars, lastSweep, halted>>

\* ---------------------------------------------------------------- handlers
\* RunCmdHandler.  in: "badbody" (the body cannot be read or decoded), "nocmd"
\* (req.Cmd is empty), "nouuid" (uuid.NewV4 fails), "sync", "async".  The job is
\* built, registered and handed to cmdWorker: inline (the handler then stays in
\* cmdWorker until RunCmdReturn) or as a goroutine (the response goes out now).
RunCmdHandler(in) ==
    /\ Serving
    /\ UNCHANGED cancelAlive
    /\ \/ /\ in \in {"badbody", "nouuid"}
          /\ resp' = Resp("run", <<>>, "ECUnknown")
          /\ UNCHANGED <<jobs, nJobs, job, hpc, wpc, addedAt>>
       \/ /\ in = "nocmd"
          /\ resp' = Resp("run", <<>>, "ECInvalidParam")
          /\ UNCHANGED <<jobs, nJobs, job, hpc, wpc, addedAt>>
       \/ /\ in \in {"sync", "async"}
          /\ nJobs < MaxJobs
          /\ LET k == nJobs + 1 IN
               /\ nJobs' = k
               /\ job' = [job EXCEPT ![k] = NewJob(now)]
               /\ jobs' = jobs \cup {k}
               /\ addedAt' = [addedAt EXCEPT ![k] = now]
               /\ wpc' = [wpc EXCEPT ![k] = "start"]
               /\ hpc' = [hpc EXCEPT ![k] = in]
               /\ resp' = IF in = "async"
                          THEN [Resp("run", IdOf(k), "OK") EXCEPT
                                    !.snap = [ZeroJob EXCEPT !.CreateTime = now]]
                          ELSE NoResp
    /\ UNCHANGED <<now, goos, ctxDone, err, doneC, canceled, wtpc, proc, kills,
                   outBuf, errBuf, lastSweep, halted>>

\* RunCmdReturn that answers without waiting for cmdWorker (the `go` of line 99
\* on the sync path as well)
RunCmdReturn_NoWait(k) ==
    /\ Serving
    /\ UNCHANGED histVars
    /\ hpc[k] = "sync"
    /\ hpc' = [hpc EXCEPT ![k] = "returned"]
    /\ resp' = [Resp("run", IdOf(k), "OK") EXCEPT !.snap = job[k]]
    /\ UNCHANGED <<now, goos, jobs, nJobs, job, ctxDone, workerVars, lastSweep, halted>>

\* RunCmdHandler, sync: cmdWorker has returned, the job is the response
RunCmdReturn(k) ==
    /\ Serving
    /\ UNCHANGED histVars
    /\ hpc[k] = "sync"
    /\ wpc[k] = "done"
    /\ hpc' = [hpc EXCEPT ![k] = "returned"]
    /\ resp' = [Resp("run", IdOf(k), "OK") EXCEPT !.snap = job[k]]
    /\ UNCHANGED <<now, goos, jobs, nJobs, job, ctxDone, workerVars, lastSweep, halted>>

\* QueryCmdHandler without the nil check of lines 198-201
QueryCmdHandler_NoNilCheck(raw) ==
    /\ Serving
    /\ UNCHANGED histVars
    /\ LET id == TrimSpace(raw)
           k == Get(id) IN
         resp' = IF id = <<>> THEN Resp("query", id, "ECInvalidParam")
                 ELSE [Resp("query", id, "OK") EXCEPT !.snap = IF k = 0 THEN ZeroJob ELSE job[k]]
    /\ UNCHANGED <<now, goos, jobs, nJobs, job, hpc, ctxDone, workerVars, lastSweep,
                   halted>>

QueryCmdHandler(raw) ==
    /\ Serving
    /\ UNCHANGED histVars
    /\ LET id == TrimSpace(raw)
           k == Get(id) IN
         resp' = IF id = <<>> THEN Resp("query", id, "ECInvalidParam")
                 ELSE IF k = 0 THEN Resp("query", id, "ECJobNotFound")
                 ELSE [Resp("query", id, "OK") EXCEPT !.snap = job[k]]
    /\ UNCHANGED <<now, goos, jobs, nJobs, job, hpc, ctxDone, workerVars, lastSweep,
                   halted>>

ListCmdHandler ==
    /\ Serving
    /\ UNCHANGED histVars
    /\ resp' = [Resp("list", <<>>, "OK") EXCEPT !.ids = GetAll]
    /\ UNCHANGED <<now, goos, jobs, nJobs, job, hpc, ctxDone, workerVars, lastSweep,
                   halted>>

\* CancelCmdHandler without the status check of lines 220-223
CancelCmdHandler_NoStatusCheck(raw) ==
    /\ Serving
    /\ LET id == TrimSpace(raw)
           k == Get(id) IN
         IF k = 0
         THEN /\ resp' = Resp("cancel", id, "ECJobNotFound")
              /\ UNCHANGED <<ctxDone, cancelAlive>>
         ELSE /\ ctxDone' = [ctxDone EXCEPT ![k] = TRUE]
              /\ cancelAlive' = [cancelAlive EXCEPT ![k] = @ \/ proc[k].st = "alive"]
              /\ resp' = Resp("cancel", id, "OK")
    /\ UNCHANGED <<now, goos, jobs, nJobs, job, hpc, workerVars, lastSweep, halted,
                   addedAt>>

CancelCmdHandler(raw) ==
    /\ Serving
    /\ LET id == TrimSpace(raw)
           k == Get(id) IN
         IF k = 0
         THEN /\ resp' = Resp("cancel", id, "ECJobNotFound")
              /\ UNCHANGED <<ctxDone, cancelAlive>>
         ELSE IF job[k].Status # JSRunning
         THEN /\ resp' = Resp("cancel", id, "ECJobNotRunning")
              /\ UNCHANGED <<ctxDone, cancelAlive>>
         ELSE /\ ctxDone' = [ctxDone EXCEPT ![k] = TRUE]
              /\ cancelAlive' = [cancelAlive EXCEPT ![k] = @ \/ proc[k].st = "alive"]
              /\ resp' = Resp("cancel", id, "OK")
    /\ UNCHANGED <<now, goos, jobs, nJobs, job, hpc, workerVars, lastSweep, halted,
                   addedAt>>

\* WorkerStart without the return of line 142: a failed start goes on to record
\* a pid and to start the watcher
WorkerStart_NoReturn(k) ==
    /\ Serving
    /\ UNCHANGED histVars
    /\ wpc[k] = "start"
    /\ \/ /\ job' = [job EXCEPT ![k].Error = ErrorText(StartErr), ![k].Status = JSFailed,
                                 ![k].Pid = k]
          /\ wtpc' = [wtpc EXCEPT ![k] = "select"]
          /\ wpc' = [wpc EXCEPT ![k] = "defer"]
          /\ UNCHANGED proc
       \/ /\ job' = [job EXCEPT ![k].Pid = k]
          /\ proc' = [proc EXCEPT ![k] = [NoProc EXCEPT !.st = "alive"]]
          /\ wtpc' = [wtpc EXCEPT ![k] = "select"]
          /\ wpc' = [wpc EXCEPT ![k] = "wait"]
    /\ resp' = NoResp
    /\ UNCHANGED <<now, goos, jobs, nJobs, hpc, ctxDone, err, doneC, canceled, kills,
                   outBuf, errBuf, lastSweep, halted>>

\* WorkerStart without line 141: a failed start leaves the status Running
WorkerStart_NoFailedStatus(k) ==
    /\ Serving
    /\ UNCHANGED histVars
    /\ wpc[k] = "start"
    /\ \/ /\ job' = [job EXCEPT ![k].Error = ErrorText(StartErr)]
          /\ wpc' = [wpc EXCEPT ![k] = "defer"]
          /\ UNCHANGED <<proc, wtpc>>
       \/ /\ job' = [job EXCEPT ![k].Pid = k]
          /\ proc' = [proc EXCEPT ![k] = [NoProc EXCEPT !.st = "alive"]]
          /\ wtpc' = [wtpc EXCEPT ![k] = "select"]
          /\ wpc' = [wpc EXCEPT ![k] = "wait"]
    /\ resp' = NoResp
    /\ UNCHANGED <<now, goos, jobs, nJobs, hpc, ctxDone, err, doneC, canceled, kills,
                   outBuf, errBuf, lastSweep, halted>>

\* ---------------------------------------------------------------- cmdWorker
\* cmd.Start (lines 137-158).  On failure the error and Failed are recorded and
\* only the deferred function remains.  On success the pid is recorded, doneC is
\* made and the watcher goroutine is started.
WorkerStart(k) ==
    /\ Serving
    /\ UNCHANGED histVars
    /\ wpc[k] = "start"
    /\ \/ /\ job' = [job EXCEPT ![k].Error = ErrorText(StartErr), ![k].Status = JSFailed]
          /\ wpc' = [wpc EXCEPT ![k] = "defer"]
          /\ UNCHANGED <<proc, wtpc>>
       \/ /\ job' = [job EXCEPT ![k].Pid = k]
          /\ proc' = [proc EXCEPT ![k] = [NoProc EXCEPT !.st = "alive"]]
          /\ wtpc' = [wtpc EXCEPT ![k] = "select"]
          /\ wpc' = [wpc EXCEPT ![k] = "wait"]
    /\ resp' = NoResp
    /\ UNCHANGED <<now, goos, jobs, nJobs, hpc, ctxDone, err, doneC, canceled, kills,
                   outBuf, errBuf, lastSweep, halted>>

\* cmd.Wait returns (line 161): the process has ended and is reaped
WorkerWait(k) ==
    /\ Serving
    /\ UNCHANGED histVars
    /\ wpc[k] = "wait"
    /\ proc[k].st \in {"exited", "signaled"}
    /\ err' = [err EXCEPT ![k] = WaitErr(proc[k])]
    /\ proc' = [proc EXCEPT ![k].reaped = TRUE]
    /\ wpc' = [wpc EXCEPT ![k] = "close"]
    /\ resp' = NoResp
    /\ UNCHANGED <<now, goos, jobs, nJobs, job, hpc, ctxDone, doneC, canceled, wtpc,
                   kills, outBuf, errBuf, lastSweep, halted>>

\* WorkerCloseDone without line 162: doneC is never closed
WorkerCloseDone_NoClose(k) ==
    /\ Serving
    /\ UNCHANGED histVars
    /\ wpc[k] = "close"
    /\ wpc' = [wpc EXCEPT ![k] = "classify"]
    /\ resp' = NoResp
    /\ UNCHANGED <<now, goos, jobs, nJobs, job, hpc, ctxDone, err, doneC, canceled,
                   wtpc, proc, kills, outBuf, errBuf, lastSweep, halted>>

\* close(doneC) (line 162)
WorkerCloseDone(k) ==
    /\ Serving
    /\ UNCHANGED histVars
    /\ wpc[k] = "close"
    /\ doneC' = [doneC EXCEPT ![k] = TRUE]
    /\ wpc' = [wpc EXCEPT ![k] = "classify"]
    /\ resp' = NoResp
    /\ UNCHANGED <<now, goos, jobs, nJobs, job, hpc, ctxDone, err, canceled, wtpc,
                   proc, kills, outBuf, errBuf, lastSweep, halted>>

\* Classified without line 170: the exit code is not recorded
Classified_NoExitCode(j, e) ==
    IF e # NilErr
    THEN [j EXCEPT !.Error = ErrorText(e), !.Status = JSFailed]
    ELSE [j EXCEPT !.Status = JSFinished]

\* the job after the exit classification (lines 163-179)
Classified(j, e) ==
    IF e # NilErr
    THEN [j EXCEPT !.ExitCode = IF e.kind = "exit" THEN e.code ELSE @,
                   !.Error = ErrorText(e),
                   !.Status = JSFailed]
    ELSE [j EXCEPT !.Status = JSFinished]

WorkerClassify(k) ==
    /\ Serving
    /\ UNCHANGED histVars
    /\ wpc[k] = "classify"
    /\ job' = [job EXCEPT ![k] = Classified(job[k], err[k])]
    /\ wpc' = [wpc EXCEPT ![k] = "check"]
    /\ resp' = NoResp
    /\ UNCHANGED <<now, goos, jobs, nJobs, hpc, ctxDone, err, doneC, canceled, wtpc,
                   proc, kills, outBuf, errBuf, lastSweep, halted>>

\* WorkerCheckCanceled that guards err.Error() against nil and so overrides
\* Finished as well
WorkerCheckCanceled_NilSafe(k) ==
    /\ Serving
    /\ UNCHANGED histVars
    /\ wpc[k] = "check"
    /\ IF ~canceled[k]
       THEN UNCHANGED job
       ELSE job' = [job EXCEPT ![k].Error = IF err[k] = NilErr THEN @ ELSE ErrorText(err[k]),
                               ![k].Status = JSCanceled]
    /\ wpc' = [wpc EXCEPT ![k] = "defer"]
    /\ resp' = NoResp
    /\ UNCHANGED <<now, goos, jobs, nJobs, hpc, ctxDone, err, doneC, canceled, wtpc,
                   proc, kills, outBuf, errBuf, lastSweep, halted>>

\* if canceled { job.Error = err.Error(); job.Status = JSCanceled } (lines
\* 182-186).  With err nil, err.Error() panics at line 184, before the status
\* is written; the deferred function still runs.
WorkerCheckCanceled(k) ==
    /\ Serving
    /\ UNCHANGED histVars
    /\ wpc[k] = "check"
    /\ IF ~canceled[k]
       THEN /\ wpc' = [wpc EXCEPT ![k] = "defer"]
            /\ UNCHANGED job
       ELSE IF err[k] = NilErr
       THEN /\ wpc' = [wpc EXCEPT ![k] = "deferPanic"]
            /\ UNCHANGED job
       ELSE /\ job' = [job EXCEPT ![k].Error = ErrorText(err[k]),
                                  ![k].Status = JSCanceled]
            /\ wpc' = [wpc EXCEPT ![k] = "defer"]
    /\ resp' = NoResp
    /\ UNCHANGED <<now, goos, jobs, nJobs, hpc, ctxDone, err, doneC, canceled, wtpc,
                   proc, kills, outBuf, errBuf, lastSweep, halted>>

\* WorkerDefer without line 115: the finish time is not written
WorkerDefer_NoFinishTime(k) ==
    /\ Serving
    /\ UNCHANGED histVars
    /\ wpc[k] \in {"defer", "deferPanic"}
    /\ job' = [job EXCEPT ![k].Stdout = outBuf[k], ![k].Stderr = errBuf[k]]
    /\ IF wpc[k] = "defer"
       THEN /\ wpc' = [wpc EXCEPT ![k] = "done"]
            /\ UNCHANGED <<hpc, halted>>
       ELSE /\ wpc' = [wpc EXCEPT ![k] = "panicked"]
            /\ hpc' = [hpc EXCEPT ![k] = IF @ = "sync" THEN "panicked" ELSE @]
            /\ halted' = IF hpc[k] = "async" THEN "crashed" ELSE halted
    /\ resp' = NoResp
    /\ UNCHANGED <<now, goos, jobs, nJobs, ctxDone, err, doneC, canceled, wtpc,
                   proc, kills, outBuf, errBuf, lastSweep>>

\* the deferred function (lines 114-118), then the return.  A panicking worker
\* takes the program down when it is a goroutine of its own (async); inline
\* (sync) the panic unwinds RunCmdHandler and the http server recovers it, so
\* the request gets no response.
WorkerDefer(k) ==
    /\ Serving
    /\ UNCHANGED histVars
    /\ wpc[k] \in {"defer", "deferPanic"}
    /\ job' = [job EXCEPT ![k].FinishTime = now,
                          ![k].Stdout = outBuf[k],
                          ![k].Stderr = errBuf[k]]
    /\ IF wpc[k] = "defer"
       THEN /\ wpc' = [wpc EXCEPT ![k] = "done"]
            /\ UNCHANGED <<hpc, halted>>
       ELSE /\ wpc' = [wpc EXCEPT ![k] = "panicked"]
            /\ hpc' = [hpc EXCEPT ![k] = IF @ = "sync" THEN "panicked" ELSE @]
            /\ halted' = IF hpc[k] = "async" THEN "crashed" ELSE halted
    /\ resp' = NoResp
    /\ UNCHANGED <<now, goos, jobs, nJobs, ctxDone, err, doneC, canceled, wtpc,
                   proc, kills, outBuf, errBuf, lastSweep>>

\* WatcherCancel in a loop: the watcher goes back to the select after the kill
WatcherCancel_Loop(k) ==
    /\ Serving
    /\ UNCHANGED histVars
    /\ wtpc[k] = "select"
    /\ ctxDone[k]
    /\ canceled' = [canceled EXCEPT ![k] = TRUE]
    /\ proc' = [proc EXCEPT ![k] = Killed(@, goos)]
    /\ kills' = [kills EXCEPT ![k] = @ + 1]
    /\ resp' = NoResp
    /\ UNCHANGED <<now, goos, jobs, nJobs, job, hpc, ctxDone, wpc, err, doneC, wtpc,
                   outBuf, errBuf, lastSweep, halted>>

\* ------------------------------------------------------------- the watcher
\* select, case <-ctx.Done() (lines 152-155): canceled = true, cmd.Process.Kill()
WatcherCancel(k) ==
    /\ Serving
    /\ UNCHANGED histVars
    /\ wtpc[k] = "select"
    /\ ctxDone[k]
    /\ canceled' = [canceled EXCEPT ![k] = TRUE]
    /\ proc' = [proc EXCEPT ![k] = Killed(@, goos)]
    /\ kills' = [kills EXCEPT ![k] = @ + 1]
    /\ wtpc' = [wtpc EXCEPT ![k] = "exited"]
    /\ resp' = NoResp
    /\ UNCHANGED <<now, goos, jobs, nJobs, job, hpc, ctxDone, wpc, err, doneC,
                   outBuf, errBuf, lastSweep, halted>>

\* select, case <-doneC (line 156)
WatcherDone(k) ==
    /\ Serving
    /\ UNCHANGED histVars
    /\ wtpc[k] = "select"
    /\ doneC[k]
    /\ wtpc' = [wtpc EXCEPT ![k] = "exited"]
    /\ resp' = NoResp
    /\ UNCHANGED <<now, goos, jobs, nJobs, job, hpc, ctxDone, wpc, err, doneC,
                   canceled, proc, kills, outBuf, errBuf, lastSweep, halted>>

\* ------------------------------------------------------- the child process
\* the command writes a byte to its stdout or stderr
ProcWrite(k) ==
    /\ Serving
    /\ UNCHANGED histVars
    /\ proc[k].st = "alive"
    /\ \/ /\ outBuf[k] < MaxOut
          /\ outBuf' = [outBuf EXCEPT ![k] = @ + 1]
          /\ UNCHANGED errBuf
       \/ /\ errBuf[k] < MaxOut
          /\ errBuf' = [errBuf EXCEPT ![k] = @ + 1]
          /\ UNCHANGED outBuf
    /\ resp' = NoResp
    /\ UNCHANGED <<now, goos, jobs, nJobs, job, hpc, ctxDone, wpc, err, doneC,
                   canceled, wtpc, proc, kills, lastSweep, halted>>

\* the command exits on its own with code c
ProcExit(k, c) ==
    /\ Serving
    /\ UNCHANGED histVars
    /\ proc[k].st = "alive"
    /\ proc' = [proc EXCEPT ![k].st = "exited", ![k].code = c, ![k].by = "own"]
    /\ resp' = NoResp
    /\ UNCHANGED <<now, goos, jobs, nJobs, job, hpc, ctxDone, wpc, err, doneC,
                   canceled, wtpc, kills, outBuf, errBuf, lastSweep, halted>>

\* ------------------------------------------------- the clock and the sweep
\* time passes; a sweep that is due runs before the clock moves on
Tick ==
    /\ Serving
    /\ UNCHANGED histVars
    /\ now < MaxTime
    /\ now < lastSweep + SweepInterval
    /\ now' = now + 1
    /\ resp' = NoResp
    /\ UNCHANGED <<goos, jobs, nJobs, job, hpc, ctxDone, workerVars, lastSweep, halted>>

\* the periodic expiry sweep
Sweep ==
    /\ Serving
    /\ UNCHANGED histVars
    /\ now = lastSweep + SweepInterval
    /\ jobs' = jobs \ Expired(now)
    /\ lastSweep' = now
    /\ resp' = NoResp
    /\ UNCHANGED <<now, goos, nJobs, job, hpc, ctxDone, workerVars, halted>>

\* UninitCmdHandler: gJobBookkeeper.Close() at shutdown
UninitCmdHandler ==
    /\ Serving
    /\ UNCHANGED histVars
    /\ halted' = "closed"
    /\ resp' = NoResp
    /\ UNCHANGED <<now, goos, jobs, nJobs, job, hpc, ctxDone, workerVars, lastSweep>>

\* ---------------------------------------------------------- specification
Next ==
    \/ \E in \in {"badbody", "nocmd", "nouuid", "sync", "async"} : RunCmdHandler(in)
    \/ \E k \in JobNums : RunCmdReturn(k)
    \/ \E raw \in RawIds : QueryCmdHandler(raw)
    \/ ListCmdHandler
    \/ \E raw \in RawIds : CancelCmdHandler(raw)
    \/ \E k \in JobNums : WorkerStart(k)
    \/ \E k \in JobNums : WorkerWait(k)
    \/ \E k \in JobNums : WorkerCloseDone(k)
    \/ \E k \in JobNums : WorkerClassify(k)
    \/ \E k \in JobNums : WorkerCheckCanceled(k)
    \/ \E k \in JobNums : WorkerDefer(k)
    \/ \E k \in JobNums : WatcherCancel(k)
    \/ \E k \in JobNums : WatcherDone(k)
    \/ \E k \in JobNums : ProcWrite(k)
    \/ \E k \in JobNums, c \in ExitCodes : ProcExit(k, c)
    \/ Tick
    \/ Sweep
    \/ UninitCmdHandler

Spec == Init /\ [][Next]_vars

\* the steps of job k's worker and of its watcher goroutine
WorkerStep(k) ==
    \/ WorkerStart(k)
    \/ WorkerWait(k)
    \/ WorkerCloseDone(k)
    \/ WorkerClassify(k)
    \/ WorkerCheckCanceled(k)
    \/ WorkerDefer(k)

WatcherStep(k) == WatcherCancel(k) \/ WatcherDone(k)

\* The Go scheduler runs every goroutine that can take a step, and the child
\* process ends at some time (the proviso under which a worker completes).
Fairness ==
    \A k \in JobNums :
        /\ WF_vars(WorkerStep(k))
        /\ WF_vars(WatcherStep(k))
        /\ WF_vars(\E c \in ExitCodes : ProcExit(k, c))

FairSpec == Spec /\ Fairness

\* ================================================================== claims
\* the worker of job k has returned (normally or by the panic)
Returned(k) == wpc[k] \in {"done", "panicked"}

\* C1 (as stated): once a job's status is Finished, Failed or Canceled, no later
\* state of the job holds a different status.
C1_TerminalStatusFrozen ==
    [][\A k \in JobNums :
          job[k].Status \in Terminal => job'[k].Status = job[k].Status]_vars

\* C1 (amended): a terminal status changes only by the worker's own final
\* override, which replaces Failed by Canceled; Finished and Canceled never
\* change, and nothing changes once the worker has returned.
C1_OnlyFailedToCanceled ==
    [][\A k \in JobNums :
          (job[k].Status \in Terminal /\ job'[k].Status # job[k].Status)
              => /\ job[k].Status = JSFailed
                 /\ job'[k].Status = JSCanceled
                 /\ wpc[k] = "check"
                 /\ canceled[k]]_vars

C1_Witness ==
    \E k \in JobNums : job[k].Status = JSCanceled /\ wpc[k] = "done"

\* C2 (as stated): every registered job whose status is not Running has a
\* finish_time strictly greater than its create_time.
C2_FinishAfterCreateOnceNotRunning ==
    \A k \in jobs : job[k].Status # JSRunning => job[k].FinishTime > job[k].CreateTime

\* C2 (amended): once the worker has returned, the job's status is not Running,
\* its finish_time is no longer the sentinel and is not earlier than its
\* create_time.
C2_FinishSetOnceReturned ==
    \A k \in JobNums :
        Returned(k) => /\ job[k].Status # JSRunning
                       /\ job[k].FinishTime # Sentinel
                       /\ job[k].FinishTime >= job[k].CreateTime

C2_Witness ==
    \E k \in jobs : Returned(k) /\ job[k].FinishTime > job[k].CreateTime

\* C3 (as stated): a job on which cancel succeeded while its child process was
\* alive ends in Canceled.
C3_CanceledAliveEndsCanceled ==
    \A k \in JobNums : (cancelAlive[k] /\ Returned(k)) => job[k].Status = JSCanceled

\* C4: a job whose process started and exited with code 0, and whose
\* cancellation handle was never invoked, ends Finished with exit code 0 and
\* empty error text.
C4_ZeroExitEndsFinished ==
    \A k \in JobNums :
        (Returned(k) /\ proc[k].st = "exited" /\ proc[k].code = 0 /\ ~ctxDone[k])
            => /\ job[k].Status = JSFinished
               /\ job[k].ExitCode = 0
               /\ job[k].Error = <<>>
               /\ wpc[k] = "done"

C4_Witness ==
    \E k \in JobNums :
        Returned(k) /\ proc[k].st = "exited" /\ proc[k].code = 0 /\ ~ctxDone[k]

\* C5: a job whose process started and exited with a non-zero code c, and whose
\* cancellation handle was never invoked, ends Failed with exit code c and
\* non-empty error text.
C5_NonZeroExitEndsFailed ==
    \A k \in JobNums :
        (Returned(k) /\ proc[k].st = "exited" /\ proc[k].code # 0 /\ ~ctxDone[k])
            => /\ job[k].Status = JSFailed
               /\ job[k].ExitCode = proc[k].code
               /\ job[k].Error # <<>>
               /\ wpc[k] = "done"

C5_Witness ==
    \E k \in JobNums :
        Returned(k) /\ proc[k].st = "exited" /\ proc[k].code = 7 /\ ~ctxDone[k]

\* the job a request id names in the registry before the request (0: none)
Target == Get(resp'.id)

\* C6 (as stated): a cancel request that follows an accepted one on the same
\* job returns success or NotRunning and changes nothing, and the forced kill
\* is issued at most once.
C6_RepeatedCancelOkOrNotRunning ==
    [][\A k \in JobNums :
          (resp'.h = "cancel" /\ resp'.id = IdOf(k) /\ ctxDone[k])
              => /\ resp'.code \in {"OK", "ECJobNotRunning"}
                 /\ UNCHANGED stateVars
                 /\ kills[k] <= 1]_vars

\* C6 (amended): every cancel request returns success, NotRunning, or NotFound
\* when (and only when) its id is not registered, as after the job's eviction; a
\* request on a job whose handle was already invoked changes nothing; the
\* forced kill is issued at most once per job.
C6_CancelIdempotent ==
    /\ [](\A k \in JobNums : kills[k] <= 1)
    /\ [][resp'.h = "cancel"
            => /\ resp'.code \in {"OK", "ECJobNotRunning", "ECJobNotFound"}
               /\ (resp'.code = "ECJobNotFound") <=> (Target = 0)
               /\ (Target # 0 /\ ctxDone[Target]) => UNCHANGED stateVars]_vars

\* a second cancel on a job whose handle was invoked and whose watcher has killed
C6_Witness ==
    \E k \in JobNums :
        /\ resp.h = "cancel" /\ resp.id = IdOf(k) /\ resp.code = "OK"
        /\ ctxDone[k] /\ kills[k] = 1

\* C7: a cancel request on a registered job whose status is terminal returns
\* NotRunning, does not invoke the cancellation handle and changes no field of
\* the job or the registry.
C7_CancelTerminalIsNoOp ==
    [][(resp'.h = "cancel" /\ Target # 0 /\ job[Target].Status \in Terminal)
          => /\ resp'.code = "ECJobNotRunning"
             /\ UNCHANGED stateVars]_vars

C7_Witness ==
    \E k \in jobs :
        /\ resp.h = "cancel" /\ resp.id = IdOf(k) /\ resp.code = "ECJobNotRunning"
        /\ job[k].Status \in Terminal /\ ~ctxDone[k]

\* C8: a query or cancel request carrying an id (non-empty after trimming) that
\* is not in the registry returns NotFound and changes neither the registry nor
\* any job; a query for a registered id never returns NotFound.
C8_UnknownIdNotFound ==
    [][/\ (resp'.h \in {"query", "cancel"} /\ resp'.id # <<>> /\ Target = 0)
            => /\ resp'.code = "ECJobNotFound"
               /\ UNCHANGED stateVars
       /\ (resp'.h = "query" /\ Target # 0)
            => /\ resp'.code = "OK"
               /\ resp'.snap = job[Target]]_vars

\* a query for the id of a job that was registered and has been evicted
C8_Witness ==
    \E k \in 1..nJobs :
        /\ k \notin jobs
        /\ resp.h = "query" /\ resp.id = IdOf(k) /\ resp.code = "ECJobNotFound"

\* C9: a job added at time T is returned by Get and GetAll at every time before
\* T + ExpireDays and by neither at any time later than T + ExpireDays +
\* SweepInterval; the sweep removes no job whose age does not exceed ExpireDays.
C9_EvictionByAge ==
    /\ [](\A k \in 1..nJobs :
            /\ now < addedAt[k] + ExpireDays
                 => (Get(IdOf(k)) = k /\ k \in GetAll)
            /\ now > addedAt[k] + ExpireDays + SweepInterval
                 => (Get(IdOf(k)) = 0 /\ k \notin GetAll))
    /\ [][\A k \in jobs \ jobs' : now - addedAt[k] > ExpireDays]_vars

C9_Witness ==
    \E k \in 1..nJobs :
        now > addedAt[k] + ExpireDays + SweepInterval /\ k \notin jobs

\* C10: the job is registered in the step that creates it, before its worker
\* has taken a step and before the response: its first observable state is
\* Running with finish_time at the sentinel, no pid and empty outputs, and the
\* id an async create returns is in the registry when the response is sent.
C10_RegisteredBeforeWorker ==
    /\ [](\A k \in JobNums :
            (resp.h = "run" /\ resp.code = "OK" /\ resp.id = IdOf(k) /\ hpc[k] = "async")
                => Get(resp.id) = k)
    /\ [][\A k \in JobNums :
            (wpc[k] = "none" /\ wpc'[k] # "none")
                => /\ k \in jobs'
                   /\ wpc'[k] = "start"
                   /\ job'[k].Status = JSRunning
                   /\ job'[k].FinishTime = Sentinel
                   /\ job'[k].CreateTime = now
                   /\ job'[k].Pid = 0
                   /\ job'[k].Stdout = 0 /\ job'[k].Stderr = 0]_vars

C10_Witness ==
    \E k \in jobs :
        /\ resp.h = "run" /\ resp.code = "OK" /\ resp.id = IdOf(k) /\ hpc[k] = "async"
        /\ wpc[k] = "start" /\ job[k].Status = JSRunning

\* C14 (as stated): whenever the watcher has taken the cancellation branch for
\* a job, the job's terminal status is Canceled, whatever the wait returned.
C14_FlagSetEndsCanceled ==
    \A k \in JobNums : (canceled[k] /\ Returned(k)) => job[k].Status = JSCanceled

\* C15 (as stated): a job ends in Canceled only if its handle was invoked and
\* the forced kill ended the child; a job whose process had exited on its own
\* before the kill never ends in Canceled.
C15_CanceledOnlyIfKilled ==
    \A k \in JobNums :
        job[k].Status = JSCanceled => (ctxDone[k] /\ proc[k].by = "kill")

\* C16 (as stated): a watcher that finds the process-done signal raised takes no
\* action (no kill, the flag stays false), and no kill is issued to a process
\* the worker has already reaped.
C16_WatcherOneSideWins ==
    [][\A k \in JobNums :
          /\ (wtpc[k] = "select" /\ wtpc'[k] = "exited" /\ doneC[k])
                => (kills'[k] = kills[k] /\ ~canceled'[k])
          /\ kills'[k] > kills[k] => ~proc[k].reaped]_vars

\* C20 (as stated): when the worker finds the canceled flag set, the wait error
\* it reads the text from is not nil; the worker never panics.
C20_CanceledImpliesWaitError ==
    \A k \in JobNums :
        /\ (wpc[k] = "check" /\ canceled[k]) => err[k] # NilErr
        /\ wpc[k] \notin {"deferPanic", "panicked"}

\* C11 (as stated): every job handed to a worker eventually has a terminal
\* status and a set finish_time, and no failure of a worker affects the registry
\* or any other job: a worker never takes the program down.
C11_WorkerAlwaysCompletes ==
    /\ \A k \in JobNums :
          (wpc[k] = "start")
              ~> \/ /\ Returned(k)
                    /\ job[k].Status \in Terminal
                    /\ job[k].FinishTime # Sentinel
                 \/ halted = "closed"
    /\ [][halted' # "crashed"]_vars

\* C17: for a job whose process was started, doneC is closed once, by the worker
\* and after cmd.Wait has returned; from then on the watcher terminates, whether
\* or not cancellation was requested (unless the program ends first).
C17_DoneOnceThenWatcherExits ==
    /\ [](\A k \in JobNums :
            /\ doneC[k] => proc[k].reaped
            /\ (proc[k].st # "none" /\ wpc[k] \notin {"wait", "close"}) => doneC[k])
    /\ [][\A k \in JobNums :
            /\ doneC[k] => doneC'[k]
            /\ doneC'[k] # doneC[k] => (wpc[k] = "close" /\ wpc'[k] = "classify")]_vars
    /\ \A k \in JobNums :
          (doneC[k] /\ wtpc[k] = "select") ~> (wtpc[k] = "exited" \/ ~Serving)

\* the worker has returned and the watcher, which never saw a cancel, has exited
C17_Witness ==
    \E k \in JobNums :
        /\ doneC[k] /\ wpc[k] = "done" /\ wtpc[k] = "exited"
        /\ ~ctxDone[k] /\ ~canceled[k]

\* C12: the response of a sync create is built after cmdWorker has returned and
\* is the job as the worker left it: terminal status, final exit code, finish
\* time set.  The response of an async create is sent in the creating step,
\* before the worker has taken a step, and carries the id and the creation time
\* only.
C12_SyncResponseIsFinal ==
    \A k \in JobNums :
        (resp.h = "run" /\ resp.code = "OK" /\ resp.id = IdOf(k))
            => /\ hpc[k] \in {"returned", "async"}
               /\ hpc[k] = "returned"
                    => /\ wpc[k] = "done"
                       /\ resp.snap = job[k]
                       /\ resp.snap.Status \in Terminal
                       /\ resp.snap.FinishTime # Sentinel
                       /\ resp.snap.ExitCode =
                              IF proc[k].st = "exited" THEN proc[k].code ELSE 0
               /\ hpc[k] = "async"
                    => /\ wpc[k] = "start"
                       /\ resp.snap = [ZeroJob EXCEPT !.CreateTime = job[k].CreateTime]

\* the response of a sync create whose command exited with code 7
C12_Witness ==
    \E k \in JobNums :
        /\ resp.h = "run" /\ resp.code = "OK" /\ resp.id = IdOf(k)
        /\ hpc[k] = "returned"
        /\ resp.snap.Status = JSFailed /\ resp.snap.ExitCode = 7

\* the worker of job k is past a cmd.Start that failed
StartFailed(k) == wpc[k] \in {"defer", "done"} /\ proc[k].st = "none"

\* C13: after a failed cmd.Start the job is Failed with the error text, no pid
\* is recorded, no watcher exists, nothing is waited for or killed, and the
\* cleanup sets the finish time.
C13_StartFailure ==
    \A k \in JobNums :
        StartFailed(k)
            => /\ job[k].Status = JSFailed
               /\ job[k].Error = ErrorText(StartErr)
               /\ job[k].Pid = 0
               /\ wtpc[k] = "none"
               /\ ~doneC[k] /\ ~canceled[k]
               /\ kills[k] = 0
               /\ ~proc[k].reaped /\ err[k] = NilErr
               /\ wpc[k] = "done" => job[k].FinishTime # Sentinel

\* a returned worker whose start failed
C13_Witness ==
    \E k \in JobNums : StartFailed(k) /\ wpc[k] = "done" /\ job[k].FinishTime # Sentinel

\* job k was registered and has been removed by the sweep
Evicted(k) == k \in 1..nJobs /\ k \notin jobs

\* C18: the sweep removes every job whose age exceeds the threshold, whatever
\* its status; query and cancel for an evicted id return NotFound and change
\* nothing, so the cancel handle of an evicted job is never invoked; a step of
\* the evicted job's worker or watcher changes neither the registry nor the
\* program's ability to serve it.
C18_EvictedWorkerHarmless ==
    [][/\ jobs' # jobs /\ nJobs' = nJobs
            => jobs \ jobs' = {k \in jobs : now - job[k].CreateTime > ExpireDays}
       /\ \A k \in JobNums :
            Evicted(k)
                => /\ Evicted(k)'
                   /\ ctxDone'[k] = ctxDone[k]
                   /\ (resp'.h \in {"query", "cancel"} /\ resp'.id = IdOf(k))
                        => (resp'.code = "ECJobNotFound" /\ UNCHANGED stateVars)
                   /\ (wpc'[k] # wpc[k] \/ wtpc'[k] # wtpc[k] \/ job'[k] # job[k])
                        => (jobs' = jobs /\ halted' = halted)]_vars

\* C19: finish_time, stdout and stderr are written once, by the deferred
\* function of the job's worker, after the process has been reaped or has
\* failed to start; a Running job has finish_time at the sentinel and empty
\* outputs, and a job with a set finish_time has a terminal status.
C19_FinishTimeOnce ==
    /\ [](\A k \in JobNums :
            /\ job[k].Status = JSRunning
                 => (job[k].FinishTime = Sentinel /\ job[k].Stdout = 0 /\ job[k].Stderr = 0)
            /\ job[k].FinishTime # Sentinel
                 => (job[k].Status \in Terminal /\ wpc[k] \in {"done", "panicked"}))
    /\ [][\A k \in JobNums :
            (\/ job'[k].FinishTime # job[k].FinishTime
             \/ job'[k].Stdout # job[k].Stdout
             \/ job'[k].Stderr # job[k].Stderr)
                => /\ job[k].FinishTime = Sentinel
                   /\ job'[k].FinishTime # Sentinel
                   /\ wpc[k] \in {"defer", "deferPanic"}
                   /\ wpc'[k] \in {"done", "panicked"}
                   /\ proc[k].reaped \/ proc[k].st = "none"]_vars

\* a job whose process was killed and reaped, with its finish time and output
C19_Witness ==
    \E k \in JobNums :
        /\ job[k].FinishTime # Sentinel /\ job[k].Status = JSCanceled
        /\ proc[k].reaped /\ job[k].Stdout > 0

=============================================================================
